---- MODULE Spec2Model ----
(***************************************************************************)
(* Lowering of a parsed Noir module to Aleo instructions (src/src/main.rs). *)
(* Text is modelled as a sequence of tokens; format! is concatenation.      *)
(* A panic (todo!(), unwrap() on None) ends the process: panic # "none".    *)
(***************************************************************************)
EXTENDS Integers, Sequences, FiniteSets, TLC

VARIABLES pc, panic, noir_ast, aleo_program, register_count,
          register_registry, body, file

vars == <<pc, panic, noir_ast, aleo_program, register_count,
          register_registry, body, file>>

(* ------------------------------ bounds --------------------------------- *)

\* AST nodes read from the module: functions, parameters, statements and
\* expression nodes (infix nodes and their leaves).
MaxNodes == 8

(* ------------------------------ inputs --------------------------------- *)

ProgramName == "main.nr"
FunctionNames == {"add", "main"}
Names == {"a", "b"}
Ops == {"Add", "Equal", "NotEqual"}
U32 == <<"Integer", "Unsigned", 32>>
ParamTypes == {U32, <<"Bool">>}
ReturnTypes == {U32, <<"Unit">>}
Patterns == {"Identifier", "Mutable"}
Parameters ==
    {[pattern |-> p, ident |-> n, type |-> t, visibility |-> "Private"] :
        p \in Patterns, n \in Names, t \in ParamTypes}

Leaves == {<<"Path", n>> : n \in Names} \cup {<<"Literal", "1">>}

\* Expressions with exactly k nodes.
ExprsN[k \in 0..MaxNodes] ==
    IF k = 0 THEN {}
    ELSE IF k = 1 THEN Leaves
    ELSE UNION {{<<"Infix", op, l, r>> :
                    op \in Ops, l \in ExprsN[i], r \in ExprsN[k - 1 - i]} :
                i \in 1..(k - 2)}

\* Statements with exactly c nodes (the statement itself and its expression).
StatementsN[c \in 1..MaxNodes] ==
    IF c = 1 THEN {<<"Let">>}
    ELSE {<<"Expression", e>> : e \in ExprsN[c - 1]}
         \cup {<<"Constrain", e>> : e \in ExprsN[c - 1]}

\* Statement sequences with exactly n nodes.
BodiesN[n \in 0..MaxNodes] ==
    IF n = 0 THEN {<<>>}
    ELSE UNION {{<<s>> \o b : s \in StatementsN[c], b \in BodiesN[n - c]} :
                c \in 1..n}

Bodies(n) == UNION {BodiesN[k] : k \in 0..n}

NoFile == <<"no file">>

(* --------------------------- pure functions ---------------------------- *)

\* The size of the part of the module read so far, for the MaxNodes bound.
RECURSIVE ExpressionNodes(_)
ExpressionNodes(e) ==
    IF e[1] = "Infix" THEN 1 + ExpressionNodes(e[3]) + ExpressionNodes(e[4]) ELSE 1

RECURSIVE SumOver(_, _)
SumOver(s, i) == IF i > Len(s) THEN 0 ELSE s[i] + SumOver(s, i + 1)

StatementNodes(s) == IF s[1] \in {"Expression", "Constrain"} THEN 1 + ExpressionNodes(s[2]) ELSE 1
BodyNodes(b) == SumOver([i \in 1..Len(b) |-> StatementNodes(b[i])], 1)
FunctionNodes(f) == 1 + Len(f.parameters) + BodyNodes(f.body)
Nodes(ast) == SumOver([i \in 1..Len(ast) |-> FunctionNodes(ast[i])], 1)

\* Mutation: body.reverse() left out, so pop() takes the last statement first.
Reverse_left_out(s) == s

Reverse(s) == [i \in 1..Len(s) |-> s[Len(s) + 1 - i]]

to_aleo_function_definition(function_name) == <<"function", " ", function_name, ":">>

\* Mutation: numbering starts at r1.
to_aleo_register_from_one(register_number) == "r" \o ToString(register_number + 1)

to_aleo_register(register_number) == "r" \o ToString(register_number)

\* "todo" stands for the todo!() arms.
to_aleo_type(unresolved_type) ==
    CASE unresolved_type[1] = "FieldElement" -> "field"
      [] unresolved_type[1] = "Integer" ->
            IF unresolved_type[2] = "Signed"
            THEN "i" \o ToString(unresolved_type[3])
            ELSE "u" \o ToString(unresolved_type[3])
      [] OTHER -> "todo"

to_aleo_visibility(visibility) ==
    IF visibility = "Public" THEN "public" ELSE "private"

\* Mutation: two rows of the operator table exchanged.
to_aleo_operator_exchanged(operator) ==
    CASE operator = "Add" -> "sub"
      [] operator = "Subtract" -> "add"
      [] operator = "Equal" -> "is.neq"
      [] operator = "NotEqual" -> "is.eq"
      [] OTHER -> "mul"

to_aleo_operator(operator) ==
    CASE operator = "Add" -> "add"
      [] operator = "Subtract" -> "sub"
      [] operator = "Multiply" -> "mul"
      [] operator = "Divide" -> "div"
      [] operator = "Equal" -> "is.eq"
      [] operator = "NotEqual" -> "is.neq"
      [] operator = "Less" -> "lt"
      [] operator = "LessEqual" -> "lte"
      [] operator = "Greater" -> "gt"
      [] operator = "GreaterEqual" -> "gte"
      [] operator = "And" -> "and"
      [] operator = "Or" -> "or"
      [] operator = "Xor" -> "xor"
      [] operator = "ShiftRight" -> "shr"
      [] operator = "ShiftLeft" -> "shl"
      [] operator = "Modulo" -> "mod"

(* IndexMap<Option<String>, String>: a sequence of <<key, value>> in        *)
(* insertion order; keys are <<"Some", name>> or <<"None">>.                *)
KeyIndex(registry, key) ==
    IF \E i \in 1..Len(registry) : registry[i][1] = key
    THEN CHOOSE i \in 1..Len(registry) : registry[i][1] = key
    ELSE 0

\* IndexMap::insert: an existing key keeps its position and gets the new value.
IndexMapInsert(registry, key, value) ==
    IF KeyIndex(registry, key) = 0
    THEN Append(registry, <<key, value>>)
    ELSE [registry EXCEPT ![KeyIndex(registry, key)] = <<key, value>>]

\* Mutation: first() in place of last().
IndexMapFirst(registry) ==
    IF registry = <<>> THEN <<>> ELSE registry[1]

\* IndexMap::last: the entry at the last position, <<>> for None.
IndexMapLast(registry) ==
    IF registry = <<>> THEN <<>> ELSE registry[Len(registry)]

\* Mutation: the constraint reuses the mnemonics of ordinary expressions.
constrain_operator_as_expression(operator) ==
    CASE operator = "Equal" -> "is.eq"
      [] operator = "NotEqual" -> "is.neq"
      [] OTHER -> "todo"

\* The operator match of the Constrain arm; "todo" stands for todo!().
constrain_operator(operator) ==
    CASE operator = "Equal" -> "assert.eq"
      [] operator = "NotEqual" -> "assert.neq"
      [] OTHER -> "todo"

Result(p, v, c, r) ==
    [panic |-> p, value |-> v, register_count |-> c, register_registry |-> r]

RECURSIVE handle_expression(_, _, _)
handle_expression(expression, count, registry) ==
    CASE expression[1] = "Infix" ->
            LET left == handle_expression(expression[3], count, registry)
            IN  IF left.panic # "none" THEN left
                ELSE
                LET right == handle_expression(expression[4], left.register_count,
                                               left.register_registry)
                IN  IF right.panic # "none" THEN right
                    ELSE
                    LET operator == to_aleo_operator(expression[2])
                        destination_register == to_aleo_register(right.register_count)
                    IN  Result("none",
                               <<"\t", operator, " ">> \o left.value \o <<" ">>
                                   \o right.value
                                   \o <<" ", "into", " ", destination_register, ";", "\n">>,
                               right.register_count + 1,
                               IndexMapInsert(right.register_registry, <<"None">>,
                                              destination_register))
      [] expression[1] = "Path" ->
            LET i == KeyIndex(registry, <<"Some", expression[2]>>)
            IN  IF i = 0 THEN Result("UnboundIdentifier", <<>>, count, registry)
                ELSE Result("none", <<registry[i][2]>>, count, registry)
      [] OTHER -> Result("todo", <<>>, count, registry)

to_aleo_operation_line(statement, count, registry) ==
    CASE statement[1] = "Constrain" ->
            IF statement[2][1] # "Infix" THEN Result("todo", <<>>, count, registry)
            ELSE
            LET left_operand == handle_expression(statement[2][3], count, registry)
            IN  IF left_operand.panic # "none" THEN left_operand
                ELSE
                LET right_operand == handle_expression(statement[2][4],
                                                       left_operand.register_count,
                                                       left_operand.register_registry)
                IN  IF right_operand.panic # "none" THEN right_operand
                    ELSE
                    LET operator == constrain_operator(statement[2][2])
                    IN  IF operator = "todo" THEN Result("todo", <<>>, count, registry)
                        ELSE Result("none",
                               <<"\t", operator, " ">> \o left_operand.value \o <<" ">>
                                   \o right_operand.value \o <<";", "\n">>,
                               right_operand.register_count,
                               right_operand.register_registry)
      [] statement[1] = "Expression" ->
            handle_expression(statement[2], count, registry)
      [] OTHER -> Result("todo", <<>>, count, registry)

to_aleo_input_line(parameter, count, registry) ==
    IF parameter.pattern # "Identifier" THEN Result("todo", <<>>, count, registry)
    ELSE
    LET register == to_aleo_register(count)
        register_type == to_aleo_type(parameter.type)
        visibility == to_aleo_visibility(parameter.visibility)
    IN  IF register_type = "todo" THEN Result("todo", <<>>, count, registry)
        ELSE Result("none",
                    <<"\t", "input", " ", register, " ", "as", " ", register_type, ".",
                      visibility, ";", "\n">>,
                    count + 1,
                    IndexMapInsert(registry, <<"Some", parameter.ident>>, register))

(* ------------------------------ actions -------------------------------- *)

Init ==
    /\ pc = "start"
    /\ panic = "none"
    /\ noir_ast = <<>>
    /\ aleo_program = <<>>
    /\ register_count = 0
    /\ register_registry = <<>>
    /\ body = <<>>
    /\ file = NoFile

\* The process aborts where it stands; nothing runs afterwards.
Panic(kind) ==
    /\ panic' = kind
    /\ UNCHANGED <<pc, noir_ast, aleo_program, register_count, register_registry,
                   body, file>>

Current == noir_ast[Len(noir_ast)]
SetCurrent(f) == [noir_ast EXCEPT ![Len(noir_ast)] = f]

\* compile_program up to its loop: the header line and the blank line.
compile_program ==
    /\ pc = "start"
    /\ panic = "none"
    /\ aleo_program' = aleo_program \o <<"program", " ", ProgramName, ".aleo", ";">>
                           \o <<"\n">> \o <<"\n">>
    /\ pc' = "functions"
    /\ UNCHANGED <<panic, noir_ast, register_count, register_registry, body, file>>

\* compile_function up to the input loop, for the next function of the module.
compile_function ==
    /\ pc = "functions"
    /\ panic = "none"
    /\ Nodes(noir_ast) < MaxNodes
    /\ \E name \in FunctionNames :
          /\ noir_ast' = Append(noir_ast,
                 [name |-> name, parameters |-> <<>>, body |-> <<>>,
                  return_type |-> <<"unread">>, return_visibility |-> "unread"])
          /\ aleo_program' = aleo_program \o to_aleo_function_definition(name) \o <<"\n">>
    /\ register_registry' = <<>>
    /\ register_count' = 0
    /\ pc' = "inputs"
    /\ UNCHANGED <<panic, body, file>>

\* One iteration of the input loop.
input_line ==
    /\ pc = "inputs"
    /\ panic = "none"
    /\ Nodes(noir_ast) < MaxNodes
    /\ \E parameter \in Parameters :
          LET res == to_aleo_input_line(parameter, register_count, register_registry)
          IN  IF res.panic # "none" THEN Panic(res.panic)
              ELSE /\ noir_ast' = SetCurrent([Current EXCEPT
                                      !.parameters = Append(@, parameter)])
                   /\ aleo_program' = aleo_program \o res.value
                   /\ register_count' = res.register_count
                   /\ register_registry' = res.register_registry
                   /\ UNCHANGED <<pc, panic, body, file>>

\* The input loop is over: the body is cloned and reversed.
body_reverse ==
    /\ pc = "inputs"
    /\ panic = "none"
    /\ \E b \in Bodies(MaxNodes - Nodes(noir_ast)) :
          /\ noir_ast' = SetCurrent([Current EXCEPT !.body = b])
          /\ body' = Reverse(b)
    /\ pc' = "body"
    /\ UNCHANGED <<panic, aleo_program, register_count, register_registry, file>>

\* One iteration of the body loop: body.pop() takes the last element.
operation_line ==
    /\ pc = "body"
    /\ panic = "none"
    /\ body # <<>>
    /\ LET statement == body[Len(body)]
           res == to_aleo_operation_line(statement, register_count, register_registry)
       IN  IF res.panic # "none" THEN Panic(res.panic)
           ELSE /\ body' = SubSeq(body, 1, Len(body) - 1)
                /\ aleo_program' = aleo_program \o res.value
                /\ register_count' = res.register_count
                /\ register_registry' = res.register_registry
                /\ UNCHANGED <<pc, panic, noir_ast, file>>

\* The body loop is over: the return type and visibility are mapped.
output_type ==
    /\ pc = "body"
    /\ panic = "none"
    /\ body = <<>>
    /\ \E return_type \in ReturnTypes, return_visibility \in {"Private"} :
          IF to_aleo_type(return_type) = "todo" THEN Panic("todo")
          ELSE /\ noir_ast' = SetCurrent([Current EXCEPT
                                  !.return_type = return_type,
                                  !.return_visibility = return_visibility])
               /\ pc' = "output"
               /\ UNCHANGED <<panic, aleo_program, register_count, register_registry,
                              body, file>>

\* register_registry.last().unwrap() and the output line.
output_line ==
    /\ pc = "output"
    /\ panic = "none"
    /\ LET last == IndexMapLast(register_registry)
       IN  IF last = <<>> THEN Panic("EmptyRegistry")
           ELSE /\ aleo_program' = aleo_program \o
                       <<"\t", "output", " ", last[2], " ", "as", " ",
                         to_aleo_type(Current.return_type), ".",
                         to_aleo_visibility(Current.return_visibility), ";", "\n">>
                /\ pc' = "functions"
                /\ UNCHANGED <<panic, noir_ast, register_count, register_registry,
                               body, file>>

\* Mutation: the text is written as soon as the buffer grows, before lowering ends.
build_aleo_program_eager ==
    /\ pc \in {"functions", "inputs", "body", "output"}
    /\ panic = "none"
    /\ file # aleo_program
    /\ file' = aleo_program
    /\ UNCHANGED <<pc, panic, noir_ast, aleo_program, register_count, register_registry, body>>

\* compile_program returns and the text is written.
build_aleo_program ==
    /\ pc = "functions"
    /\ panic = "none"
    /\ file' = aleo_program
    /\ pc' = "done"
    /\ UNCHANGED <<panic, noir_ast, aleo_program, register_count, register_registry, body>>

Next ==
    \/ compile_program
    \/ compile_function
    \/ input_line
    \/ body_reverse
    \/ operation_line
    \/ output_type
    \/ output_line
    \/ build_aleo_program

Spec == Init /\ [][Next]_vars

(* ------------------------- reading the output -------------------------- *)

RegisterName(n) == "r" \o ToString(n)
RegisterNames == {RegisterName(n) : n \in 0..(MaxNodes + 1)}
InfixMnemonics == {"add", "is.eq", "is.neq"}

Mnemonic(op) ==
    CASE op = "Add" -> "add" [] op = "Equal" -> "is.eq" [] op = "NotEqual" -> "is.neq"

AssertMnemonic(op) == IF op = "Equal" THEN "assert.eq" ELSE "assert.neq"

IsPrefix(s, t) == Len(s) <= Len(t) /\ SubSeq(t, 1, Len(s)) = s

RECURSIVE SortedSeq(_)
SortedSeq(S) ==
    IF S = {} THEN <<>>
    ELSE LET m == CHOOSE x \in S : \A y \in S : x <= y
         IN  <<m>> \o SortedSeq(S \ {m})

RECURSIVE SplitLines(_)
SplitLines(text) ==
    IF text = <<>> THEN <<>>
    ELSE LET nl == {i \in 1..Len(text) : text[i] = "\n"}
         IN  IF nl = {} THEN <<text>>
             ELSE LET m == CHOOSE x \in nl : \A y \in nl : x <= y
                  IN  <<SubSeq(text, 1, m - 1)>> \o SplitLines(SubSeq(text, m + 1, Len(text)))

\* The text of the j-th function: from its "function" token to the next one.
Block(text, j) ==
    LET starts == SortedSeq({i \in 1..Len(text) : text[i] = "function"})
    IN  SubSeq(text, starts[j],
               IF j < Len(starts) THEN starts[j + 1] - 1 ELSE Len(text))

\* Where a register is allocated in a text: after "input" and after "into".
AllocPositions(text) == SortedSeq({i \in 1..Len(text) : text[i] \in {"input", "into"}})

Completed(j) == j < Len(noir_ast) \/ (j = Len(noir_ast) /\ pc \in {"functions", "done"})

ParamNames(f) == {f.parameters[i].ident : i \in 1..Len(f.parameters)}

\* The register of the parameter named x: that of its last declaration.
ParamRegister(f, x) ==
    LET last == CHOOSE i \in 1..Len(f.parameters) :
                    /\ f.parameters[i].ident = x
                    /\ \A k \in (i + 1)..Len(f.parameters) : f.parameters[k].ident # x
    IN  RegisterName(last - 1)

RECURSIVE InfixNodes(_)
InfixNodes(e) ==
    IF e[1] = "Infix" THEN 1 + InfixNodes(e[3]) + InfixNodes(e[4]) ELSE 0

InputLineText(n) ==
    <<"\t", "input", " ", RegisterName(n), " ", "as", " ", "u32", ".", "private", ";", "\n">>

OutputLineText(reg) ==
    <<"\t", "output", " ", reg, " ", "as", " ", "u32", ".", "private", ";", "\n">>

RECURSIVE InputLinesText(_, _)
InputLinesText(n, k) == IF n >= k THEN <<>> ELSE InputLineText(n) \o InputLinesText(n + 1, k)

LastStatement == body[Len(body)]
\* The statement lowered by the last operation_line step.
DoneStatement == Current.body[Len(Current.body) - Len(body)]

IsPathOf(e, f) == e[1] = "Path" /\ e[2] \in ParamNames(f)

IsIdentInfix(e, f) == e[1] = "Infix" /\ IsPathOf(e[3], f) /\ IsPathOf(e[4], f)

(* ------------------------------- claims -------------------------------- *)

\* C1: in every function, the n-th allocation is r(n-1): the parameters get
\* r0..r(k-1) in declaration order, the infix destinations the next numbers,
\* nothing is skipped or used twice, and each function starts again at r0.
C1_GaplessNumbering ==
    \A j \in 1..Len(noir_ast) :
        LET blk == Block(aleo_program, j)
            P == AllocPositions(blk)
            k == Len(noir_ast[j].parameters)
        IN  /\ \A n \in 1..Len(P) :
                  /\ blk[P[n] + 2] = RegisterName(n - 1)
                  /\ (blk[P[n]] = "input") <=> (n <= k)
            /\ (j = Len(noir_ast)) => (Len(P) = register_count)

C1_Witness ==
    /\ pc = "done"
    /\ Len(noir_ast) = 2
    /\ Len(noir_ast[1].parameters) >= 1
    /\ Len(noir_ast[2].parameters) = 1
    /\ register_count = 2

\* C2: parameters a and b and the single statement `a op b` give, after the
\* input lines, the one line `<mnemonic> <reg(a)> <reg(b)> into <fresh>` and an
\* output line that names the same fresh register.
C2_TwoOperandInfix ==
    \A j \in 1..Len(noir_ast) :
        LET f == noir_ast[j]
            k == Len(f.parameters)
        IN  (/\ k = 2
             /\ Len(f.body) = 1
             /\ f.body[1][1] = "Expression"
             /\ IsIdentInfix(f.body[1][2], f))
            => /\ Completed(j) =>
                    Block(aleo_program, j) =
                        <<"function", " ", f.name, ":", "\n">>
                        \o InputLinesText(0, k)
                        \o <<"\t", Mnemonic(f.body[1][2][2]), " ",
                             ParamRegister(f, f.body[1][2][3][2]), " ",
                             ParamRegister(f, f.body[1][2][4][2]), " ",
                             "into", " ", RegisterName(k), ";", "\n">>
                        \o OutputLineText(RegisterName(k))
               /\ (j = Len(noir_ast) /\ panic # "none") => (pc = "body" /\ body = <<>>)

\* The program of tests::test_add.
C2_Witness ==
    /\ pc = "done"
    /\ aleo_program =
          <<"program", " ", "main.nr", ".aleo", ";", "\n", "\n",
            "function", " ", "add", ":", "\n">>
          \o <<"\t", "input", " ", "r0", " ", "as", " ", "u32", ".", "private", ";", "\n">>
          \o <<"\t", "input", " ", "r1", " ", "as", " ", "u32", ".", "private", ";", "\n">>
          \o <<"\t", "add", " ", "r0", " ", "r1", " ", "into", " ", "r2", ";", "\n">>
          \o <<"\t", "output", " ", "r2", " ", "as", " ", "u32", ".", "private", ";", "\n">>

WellFormedInstruction(line) ==
    /\ Len(line) = 11
    /\ line[1] = "\t" /\ line[2] \in InfixMnemonics /\ line[3] = " "
    /\ line[4] \in RegisterNames /\ line[5] = " "
    /\ line[6] \in RegisterNames /\ line[7] = " "
    /\ line[8] = "into" /\ line[9] = " "
    /\ line[10] \in RegisterNames /\ line[11] = ";"

\* C3: lowering an infix expression emits one instruction line per infix node,
\* inner nodes first, and every operand position of every emitted line holds a
\* register identifier.
C3_OneLinePerInfixNode ==
    [][(/\ pc = "body" /\ panic = "none" /\ body # <<>>
        /\ LastStatement[1] = "Expression"
        /\ LastStatement[2][1] = "Infix"
        /\ panic' = "none")
       => LET added == SubSeq(aleo_program', Len(aleo_program) + 1, Len(aleo_program'))
              lines == SplitLines(added)
          IN  /\ Len(lines) = InfixNodes(LastStatement[2])
              /\ \A i \in 1..Len(lines) : WellFormedInstruction(lines[i])
              /\ lines[Len(lines)][10] = RegisterName(register_count' - 1)]_vars

\* C4: a function that lowers successfully ends with exactly one output line,
\* and that line names the most recently allocated register r(register_count-1).
C4_OutputNamesLatestRegister ==
    (noir_ast # <<>> /\ pc \in {"functions", "done"})
    => LET blk == Block(aleo_program, Len(noir_ast))
       IN  /\ Cardinality({i \in 1..Len(blk) : blk[i] = "output"}) = 1
           /\ IsPrefix(OutputLineText(RegisterName(register_count - 1)),
                       SubSeq(blk, Len(blk) - 11, Len(blk)))

\* C5: a constraint `x == y` (resp. `x != y`) over two parameter identifiers
\* appends exactly the line `assert.eq <reg(x)> <reg(y)>;` (resp. assert.neq)
\* and leaves the register counter and the registry unchanged.
C5_ConstraintLine ==
    [][(/\ pc = "body" /\ panic = "none" /\ body # <<>>
        /\ LastStatement[1] = "Constrain"
        /\ IsIdentInfix(LastStatement[2], Current)
        /\ LastStatement[2][2] \in {"Equal", "NotEqual"})
       => /\ panic' = "none"
          /\ aleo_program' = aleo_program \o
                <<"\t", AssertMnemonic(LastStatement[2][2]), " ",
                  ParamRegister(Current, LastStatement[2][3][2]), " ",
                  ParamRegister(Current, LastStatement[2][4][2]), ";", "\n">>
          /\ register_count' = register_count
          /\ register_registry' = register_registry]_vars

C5_Witness ==
    /\ pc = "body" /\ panic = "none"
    /\ Len(body) < Len(Current.body)
    /\ DoneStatement[1] = "Constrain"
    /\ IsIdentInfix(DoneStatement[2], Current)
    /\ DoneStatement[2][2] = "NotEqual"
    /\ DoneStatement[2][3][2] # DoneStatement[2][4][2]
    /\ SubSeq(aleo_program, Len(aleo_program) - 7, Len(aleo_program)) =
          <<"\t", "assert.neq", " ",
            ParamRegister(Current, DoneStatement[2][3][2]), " ",
            ParamRegister(Current, DoneStatement[2][4][2]), ";", "\n">>

\* C6 as stated: a function whose body allocates no register never gets an
\* output line, whether or not it has parameters.
C6_NoAllocationNoOutput ==
    (noir_ast # <<>> /\ pc \in {"functions", "done"})
    => register_count > Len(Current.parameters)

\* C6 as amended: the empty-registry failure happens exactly when the function
\* has no parameters either (its output step then always fails and emits no
\* output line); with at least one parameter a body that allocates nothing is
\* lowered successfully and the output line names the last registry entry.
C6_EmptyRegistryOnlyWithoutParameters ==
    /\ (panic = "EmptyRegistry")
          => /\ pc = "output"
             /\ Current.parameters = <<>>
             /\ register_count = 0
             /\ \A i \in 1..Len(Block(aleo_program, Len(noir_ast))) :
                    Block(aleo_program, Len(noir_ast))[i] # "output"
    /\ (pc = "output" /\ panic # "none") => (panic = "EmptyRegistry")
    /\ (pc = "output" /\ Current.parameters = <<>>) => (register_registry = <<>>)
    /\ (noir_ast # <<>> /\ pc \in {"functions", "done"}
            /\ register_count = Len(Current.parameters))
          => /\ Len(Current.parameters) >= 1
             /\ IsPrefix(OutputLineText(register_registry[Len(register_registry)][2]),
                         SubSeq(aleo_program, Len(aleo_program) - 11, Len(aleo_program)))

C6_Witness ==
    /\ pc = "functions"
    /\ noir_ast # <<>>
    /\ Cardinality(ParamNames(Current)) = 2
    /\ Current.body # <<>>
    /\ register_count = Len(Current.parameters)

\* C7: the file is written only after every function has been lowered without
\* failure; when lowering fails, nothing is persisted.
C7_NoPartialOutput ==
    /\ (file # NoFile)
          => /\ pc = "done"
             /\ panic = "none"
             /\ file = aleo_program
             /\ \A j \in 1..Len(noir_ast) : noir_ast[j].return_type # <<"unread">>
    /\ (panic # "none") => (file = NoFile)

\* An identifier bound only in the first function is referenced in the second.
C7_Witness ==
    /\ panic = "UnboundIdentifier"
    /\ Len(noir_ast) = 2
    /\ pc = "body"
    /\ body # <<>>
    /\ LastStatement[1] = "Expression"
    /\ LastStatement[2][1] = "Path"
    /\ LastStatement[2][2] \in ParamNames(noir_ast[1])
    /\ LastStatement[2][2] \notin ParamNames(noir_ast[2])
    /\ file = NoFile

\* C8: a statement that is a bare reference to a bound identifier leaves the
\* output buffer, the register counter and the registry unchanged.
C8_BareIdentifierNoEffect ==
    [][(/\ pc = "body" /\ panic = "none" /\ body # <<>>
        /\ LastStatement[1] = "Expression"
        /\ IsPathOf(LastStatement[2], Current))
       => /\ aleo_program' = aleo_program
          /\ register_count' = register_count
          /\ register_registry' = register_registry]_vars

RECURSIVE InputsInOrder(_, _, _, _)
InputsInOrder(parameters, i, count, registry) ==
    IF i > Len(parameters) THEN [text |-> <<>>, count |-> count, registry |-> registry]
    ELSE LET res == to_aleo_input_line(parameters[i], count, registry)
             rest == InputsInOrder(parameters, i + 1, res.register_count,
                                   res.register_registry)
         IN  [rest EXCEPT !.text = res.value \o @]

RECURSIVE StatementsInOrder(_, _, _, _)
StatementsInOrder(statements, i, count, registry) ==
    IF i > Len(statements) THEN <<>>
    ELSE LET res == to_aleo_operation_line(statements[i], count, registry)
         IN  res.value \o StatementsInOrder(statements, i + 1, res.register_count,
                                            res.register_registry)

\* A function's text up to its output line, composed in declaration order.
FunctionInOrder(f) ==
    LET inputs == InputsInOrder(f.parameters, 1, 0, <<>>)
    IN  <<"function", " ", f.name, ":", "\n">> \o inputs.text
        \o StatementsInOrder(f.body, 1, inputs.count, inputs.registry)

IsOutputLine(text) ==
    /\ Len(text) = 12
    /\ SubSeq(text, 1, 3) = <<"\t", "output", " ">>
    /\ text[4] \in RegisterNames
    /\ SubSeq(text, 5, 12) = <<" ", "as", " ", "u32", ".", "private", ";", "\n">>

\* C9: the buffer only grows at its end, and the final text is the header line,
\* a blank line, then for each function in declaration order its function line,
\* its input lines in parameter order, the text of its statements in source
\* order and its output line.
C9_AppendOnlyInOrder ==
    /\ [][IsPrefix(aleo_program, aleo_program')]_vars
    /\ [](pc = "done" =>
            /\ IsPrefix(<<"program", " ", ProgramName, ".aleo", ";", "\n", "\n">>, aleo_program)
            /\ Cardinality({i \in 1..Len(aleo_program) : aleo_program[i] = "program"}) = 1
            /\ Cardinality({i \in 1..Len(aleo_program) : aleo_program[i] = "function"})
                  = Len(noir_ast)
            /\ (noir_ast = <<>>) => (Len(aleo_program) = 7)
            /\ (noir_ast # <<>>) => (aleo_program[8] = "function")
            /\ \A j \in 1..Len(noir_ast) :
                  LET blk == Block(aleo_program, j)
                      pre == FunctionInOrder(noir_ast[j])
                  IN  /\ IsPrefix(pre, blk)
                      /\ IsOutputLine(SubSeq(blk, Len(pre) + 1, Len(blk))))

C9_Witness ==
    /\ pc = "done"
    /\ Len(noir_ast) = 2
    /\ noir_ast[1].name # noir_ast[2].name
    /\ Len(noir_ast[1].parameters) >= 1
    /\ Len(noir_ast[1].body) = 1
    /\ noir_ast[1].body[1][2][1] = "Infix"
    /\ file = aleo_program

\* C10: every allocation adds an entry at the end of the registry and none is
\* removed or overwritten: after n allocations it holds r0, ..., r(n-1) in order.
C10_RegistryIsAllocationLog ==
    (panic = "none")
    => /\ Len(register_registry) = register_count
       /\ \A i \in 1..Len(register_registry) :
              register_registry[i][2] = RegisterName(i - 1)

====
